---- MODULE Spec2Model ----
(***************************************************************************)
(* A model of kepler.js: the Kepler body, its lazily derived orbital       *)
(* elements (set_<attr> / require) and its anomaly pipeline (eccAnom,      *)
(* TrueAnom).                                                              *)
(*                                                                         *)
(* JavaScript numbers are modelled as decimal floating-point values with a *)
(* five-digit significand: [k |-> "num", m |-> significand, e |-> exponent]*)
(* stands for m * 10^e, with 10^4 <= |m| < 10^5 or m = 0.  NaN and         *)
(* undefined are values of their own.                                      *)
(***************************************************************************)
EXTENDS Integers, Sequences, FiniteSets, TLC

-----------------------------------------------------------------------------
(* JavaScript values *)

Undefined == [k |-> "undef", m |-> 0, e |-> 0]
NaN == [k |-> "nan", m |-> 0, e |-> 0]
Zero == [k |-> "num", m |-> 0, e |-> 0]

IsNum(a) == a.k = "num"

Abs(i) == IF i < 0 THEN -i ELSE i
Sgn(i) == IF i < 0 THEN -1 ELSE 1

Pow10(k) == <<1, 10, 100, 1000, 10000, 100000, 1000000, 10000000, 100000000, 1000000000>>[k + 1]

\* The number of decimal digits of n > 0 (n is below 2^31).
Digits(n) ==
  IF n < 10 THEN 1 ELSE IF n < 100 THEN 2 ELSE IF n < 1000 THEN 3
  ELSE IF n < 10000 THEN 4 ELSE IF n < 100000 THEN 5 ELSE IF n < 1000000 THEN 6
  ELSE IF n < 10000000 THEN 7 ELSE IF n < 100000000 THEN 8
  ELSE IF n < 1000000000 THEN 9 ELSE 10

\* The number i * 10^x rounded to five significant digits.
Norm(i, x) ==
  IF i = 0 THEN Zero
  ELSE LET n == Abs(i)
           d == Digits(n)
       IN IF d <= 5
          THEN [k |-> "num", m |-> Sgn(i) * n * Pow10(5 - d), e |-> x - (5 - d)]
          ELSE LET q == (n + Pow10(d - 5) \div 2) \div Pow10(d - 5)
               IN IF q >= 100000
                  THEN [k |-> "num", m |-> Sgn(i) * 10000, e |-> x + (d - 5) + 1]
                  ELSE [k |-> "num", m |-> Sgn(i) * q, e |-> x + (d - 5)]

\* An integer literal of the source.
Int2Num(i) == Norm(i, 0)

FNeg(a) == IF IsNum(a) THEN [a EXCEPT !.m = -a.m] ELSE NaN

FAbs(a) == IF IsNum(a) THEN [a EXCEPT !.m = Abs(a.m)] ELSE NaN

\* a + b; an operand that is undefined or NaN gives NaN.
FAdd(a, b) ==
  IF ~(IsNum(a) /\ IsNum(b)) THEN NaN
  ELSE IF a.m = 0 THEN b
  ELSE IF b.m = 0 THEN a
  ELSE LET hi == IF a.e >= b.e THEN a ELSE b
           lo == IF a.e >= b.e THEN b ELSE a
           d == hi.e - lo.e
       IN IF d > 5 THEN hi
          ELSE IF d = 5 THEN Norm(hi.m * 10000 + (lo.m \div 10), lo.e + 1)
          ELSE Norm(hi.m * Pow10(d) + lo.m, lo.e)

FSub(a, b) == FAdd(a, FNeg(b))

\* a * b: the product of the significands, computed in two halves.
FMul(a, b) ==
  IF ~(IsNum(a) /\ IsNum(b)) THEN NaN
  ELSE LET x == Abs(a.m)
           y == Abs(b.m)
           p == x * (y \div 100) + (x * (y % 100)) \div 100
       IN Norm(Sgn(a.m) * Sgn(b.m) * p, a.e + b.e + 2)

\* a / b.  Division by zero gives NaN here: JavaScript gives NaN for 0/0 and
\* an infinity otherwise, and every use this program makes of an infinite E
\* or F (Math.sin, Math.cos, E - E) gives NaN.
FDiv(a, b) ==
  IF ~(IsNum(a) /\ IsNum(b)) THEN NaN
  ELSE IF b.m = 0 THEN NaN
  ELSE IF a.m = 0 THEN Zero
  ELSE LET x == Abs(a.m)
           y == Abs(b.m)
           q == (x * 10000) \div y
           r == (x * 10000) % y
           q2 == (r * 10) \div y
       IN Norm(Sgn(a.m) * Sgn(b.m) * (q * 10 + q2), a.e - b.e - 5)

\* a < b, a > b and a <= b; a comparison with undefined or NaN is false.
FLt(a, b) == IsNum(a) /\ IsNum(b) /\ FSub(a, b).m < 0
FGt(a, b) == FLt(b, a)
FLe(a, b) == IsNum(a) /\ IsNum(b) /\ FSub(a, b).m <= 0

RECURSIVE ISqrtIter(_, _)
ISqrtIter(n, x) ==
  LET y == (x + n \div x) \div 2
  IN IF y >= x THEN x ELSE ISqrtIter(n, y)

\* The integer square root of n >= 0.
ISqrt(n) == IF n = 0 THEN 0 ELSE ISqrtIter(n, 46340)

\* The square root: NaN for a negative argument.
FSqrt(a) ==
  IF ~IsNum(a) \/ a.m < 0 THEN NaN
  ELSE IF a.m = 0 THEN Zero
  ELSE LET odd == (a.e % 2) = 1
           x0 == IF odd THEN Norm(ISqrt(a.m * 1000), (a.e - 3) \div 2)
                 ELSE Norm(ISqrt(a.m * 10000), (a.e - 4) \div 2)
       IN FMul([k |-> "num", m |-> 50000, e |-> -5], FAdd(x0, FDiv(a, x0)))

FSquare(a) == FMul(a, a)
FCube(a) == FMul(FMul(a, a), a)

\* Math.floor
FFloor(a) ==
  IF ~IsNum(a) THEN NaN
  ELSE IF a.e >= 0 THEN a
  ELSE IF a.e < -5 THEN (IF a.m < 0 THEN Int2Num(-1) ELSE Zero)
  ELSE Int2Num(a.m \div Pow10(-a.e))

\* x * 10^4 as an integer (the fixed-point form the series below work in).
ToFix(a) ==
  IF a.e >= -4 THEN a.m * Pow10(a.e + 4)
  ELSE IF a.e < -13 THEN 0
  ELSE Sgn(a.m) * ((Abs(a.m) + Pow10(-4 - a.e) \div 2) \div Pow10(-4 - a.e))

PiFix == 31416
Pi == [k |-> "num", m |-> 31416, e |-> -4]

\* sin u and cos u for 0 <= u <= pi/4, by their Taylor series, times 10^4.
SinSeries(u) ==
  LET u2 == (u * u) \div 10000
      t3 == (u * u2) \div 10000
      t5 == (t3 * u2) \div 10000
      t7 == (t5 * u2) \div 10000
  IN u - t3 \div 6 + t5 \div 120 - t7 \div 5040

CosSeries(u) ==
  LET u2 == (u * u) \div 10000
      t4 == (u2 * u2) \div 10000
      t6 == (t4 * u2) \div 10000
  IN 10000 - u2 \div 2 + t4 \div 24 - t6 \div 720

\* sin u for 0 <= u <= pi/2.
SinQuarter(u) == IF u <= 7854 THEN SinSeries(u) ELSE CosSeries(15708 - u)

\* sin t for 0 <= t < 2 pi.
SinFix(t) ==
  IF t <= 15708 THEN SinQuarter(t)
  ELSE IF t <= 31416 THEN SinQuarter(31416 - t)
  ELSE IF t <= 47124 THEN -SinQuarter(t - 31416)
  ELSE -SinQuarter(62832 - t)

RECURSIVE TimesPow10Mod(_, _)
TimesPow10Mod(t, n) == IF n = 0 THEN t ELSE TimesPow10Mod((t * 10) % 62832, n - 1)

\* The angle a reduced to [0, 2 pi), times 10^4.
AngleFix(a) ==
  IF a.e <= 0 THEN ToFix(a) % 62832
  ELSE TimesPow10Mod((a.m * 10000) % 62832, a.e)

\* Math.sin and Math.cos: NaN for undefined and NaN.
FSin(a) == IF ~IsNum(a) THEN NaN ELSE Norm(SinFix(AngleFix(a)), -4)
FCos(a) == IF ~IsNum(a) THEN NaN ELSE Norm(SinFix((AngleFix(a) + 15708) % 62832), -4)

\* atan z for 0 <= z <= 1, times 10^4 (a polynomial in z^2).
AtanFix(z) ==
  LET w == (z * z) \div 10000
      c4 == 208
      c3 == -851 + (c4 * w) \div 10000
      c2 == 1801 + (c3 * w) \div 10000
      c1 == -3303 + (c2 * w) \div 10000
      c0 == 9999 + (c1 * w) \div 10000
  IN (z * c0) \div 10000

\* Math.atan2(y, x)
FAtan2(y, x) ==
  IF ~(IsNum(y) /\ IsNum(x)) THEN NaN
  ELSE IF y.m = 0 /\ x.m = 0 THEN Zero
  ELSE LET ay == FAbs(y)
           ax == FAbs(x)
           steep == FGt(ay, ax)
           z == ToFix(IF steep THEN FDiv(ax, ay) ELSE FDiv(ay, ax))
           a0 == AtanFix(z)
           a1 == IF steep THEN 15708 - a0 ELSE a0
           a2 == IF x.m < 0 THEN PiFix - a1 ELSE a1
       IN Norm(IF y.m < 0 THEN -a2 ELSE a2, -4)

\* Math.acos: NaN outside [-1, 1].
FAcos(a) ==
  LET s == FSub(Int2Num(1), FSquare(a))
  IN IF ~IsNum(a) \/ s.m < 0 THEN NaN ELSE FAtan2(FSqrt(s), a)


-----------------------------------------------------------------------------
(* The two-dimensional vector primitives the body's formulas call.  A      *)
(* vector is [k |-> "vec", x |-> number, y |-> number].                    *)

Vec(x, y) == [k |-> "vec", x |-> x, y |-> y]

\* vec.length()
VLength(u) == FSqrt(FAdd(FSquare(u.x), FSquare(u.y)))

\* vec.cross(vec): the scalar x1*y2 - y1*x2.
Cross(u, w) == FSub(FMul(u.x, w.y), FMul(u.y, w.x))

\* vec.cross(scalar): the vector (x, y, 0) x (0, 0, s).
CrossScalar(u, s) == Vec(FMul(u.y, s), FNeg(FMul(u.x, s)))

\* vec.divide(scalar) and vec.subtract(vec), componentwise.
VDivide(u, s) == Vec(FDiv(u.x, s), FDiv(u.y, s))
VSubtract(u, w) == Vec(FSub(u.x, w.x), FSub(u.y, w.y))

-----------------------------------------------------------------------------
(* The body and its derivations.  Attribute names are written in ASCII:    *)
(* mu, eps, Omega, omega and phi stand for the source's Greek names.       *)

\* The attributes that have a set_<attr> function.
RuleAttrs ==
  {"r", "v", "mu", "ek", "ep", "eps", "I", "Omega", "L", "h", "a", "b",
   "eccvec", "ecc", "p", "Et", "ap", "pe", "omega", "vt"}

\* The attributes written by eccAnom and TrueAnom.
AnomalyAttrs == {"M", "E", "phi"}

DerivedAttrs == RuleAttrs \cup AnomalyAttrs

\* Prereqs, were set_h to require ecc as well (set_ecc requires h).
PrereqsCyclic(attr) ==
  CASE attr = "ek" -> <<"v">>
    [] attr = "ep" -> <<"mu", "r">>
    [] attr = "eps" -> <<"ek", "ep">>
    [] attr = "I" -> <<"r">>
    [] attr = "Omega" -> <<"r">>
    [] attr = "L" -> <<"I", "Omega">>
    [] attr = "h" -> <<"L", "mu", "ecc">>
    [] attr = "a" -> <<"mu", "eps">>
    [] attr = "b" -> <<"a", "ecc">>
    [] attr = "ecc" -> <<"eps", "h", "mu">>
    [] attr = "p" -> <<"a", "mu">>
    [] attr = "Et" -> <<"a">>
    [] attr = "ap" -> <<"ecc", "a">>
    [] attr = "pe" -> <<"ecc", "a">>
    [] attr = "omega" -> <<"eccvec">>
    [] OTHER -> <<>>

\* The list each set_<attr> passes to this.require (empty: it makes no call).
Prereqs(attr) ==
  CASE attr = "ek" -> <<"v">>
    [] attr = "ep" -> <<"mu", "r">>
    [] attr = "eps" -> <<"ek", "ep">>
    [] attr = "I" -> <<"r">>
    [] attr = "Omega" -> <<"r">>
    [] attr = "L" -> <<"I", "Omega">>
    [] attr = "h" -> <<"L", "mu">>
    [] attr = "a" -> <<"mu", "eps">>
    [] attr = "b" -> <<"a", "ecc">>
    [] attr = "ecc" -> <<"eps", "h", "mu">>
    [] attr = "p" -> <<"a", "mu">>
    [] attr = "Et" -> <<"a">>
    [] attr = "ap" -> <<"ecc", "a">>
    [] attr = "pe" -> <<"ecc", "a">>
    [] attr = "omega" -> <<"eccvec">>
    [] OTHER -> <<>>

\* The derived attributes each set_<attr> reads in its formula.
Uses(attr) ==
  CASE attr = "ek" -> {"v"}
    [] attr = "ep" -> {"mu", "r"}
    [] attr = "eps" -> {"ek", "ep"}
    [] attr = "I" -> {"r"}
    [] attr = "Omega" -> {"r"}
    [] attr = "L" -> {"I", "Omega"}
    [] attr = "h" -> {"L"}
    [] attr = "a" -> {"mu", "eps"}
    [] attr = "b" -> {"a", "ecc"}
    [] attr = "eccvec" -> {"h", "mu", "r"}
    [] attr = "ecc" -> {"eps", "h", "mu"}
    [] attr = "p" -> {"a", "mu"}
    [] attr = "Et" -> {"a"}
    [] attr = "ap" -> {"ecc", "a"}
    [] attr = "pe" -> {"ecc", "a"}
    [] attr = "omega" -> {"eccvec"}
    [] OTHER -> {}

\* typeof value != 'undefined'
Defined(value) == value.k # "undef"

One == Int2Num(1)
Two == Int2Num(2)

\* set_b: the branch on ecc > 1.
Formula_b(this) ==
  IF FGt(this["ecc"], One)
  THEN FMul(this["a"], FSqrt(FSub(FSquare(this["ecc"]), One)))
  ELSE FMul(this["a"], FSqrt(FSub(One, FSquare(this["ecc"]))))

\* set_eccvec, with every operand defined.
Formula_eccvec(this) ==
  VSubtract(VDivide(CrossScalar(this["vvec"], this["h"]), this["mu"]),
            VDivide(this["rvec"], this["r"]))

\* The value set_<attr> assigns, from the body as it is.
Formula(attr, this) ==
  CASE attr = "r" -> VLength(this["rvec"])
    [] attr = "v" -> VLength(this["vvec"])
    [] attr = "mu" -> Int2Num(398600)
    [] attr = "ek" -> FDiv(FSquare(this["v"]), Two)
    [] attr = "ep" -> FDiv(FNeg(this["mu"]), this["r"])
    [] attr = "eps" -> FAdd(this["ek"], this["ep"])
    [] attr = "I" -> FMul(this["mass"], FSquare(this["r"]))
    [] attr = "Omega" -> FDiv(Cross(this["rvec"], this["vvec"]), FSquare(this["r"]))
    [] attr = "L" -> FMul(this["I"], this["Omega"])
    [] attr = "h" -> FDiv(this["L"], this["mass"])
    [] attr = "a" -> FDiv(FNeg(this["mu"]), FMul(Two, this["eps"]))
    [] attr = "b" -> Formula_b(this)
    [] attr = "eccvec" -> Formula_eccvec(this)
    [] attr = "ecc" ->
         FSqrt(FAdd(One, FDiv(FMul(FMul(Two, this["eps"]), FSquare(this["h"])),
                              FSquare(this["mu"]))))
    [] attr = "p" -> FMul(FMul(Two, Pi), FSqrt(FDiv(FCube(this["a"]), this["mu"])))
    [] attr = "Et" -> FAcos(FDiv(this["rvec"].x, this["a"]))
    [] attr = "ap" -> FMul(FAdd(One, this["ecc"]), this["a"])
    [] attr = "pe" -> FMul(FSub(One, this["ecc"]), this["a"])
    [] attr = "omega" -> FAtan2(this["eccvec"].y, this["eccvec"].x)
    [] attr = "vt" -> FAtan2(this["rvec"].y, this["rvec"].x)

-----------------------------------------------------------------------------
(* The state *)

VARIABLES
  bodies,    \* the Kepler objects: bodies[id][name] is this[name] of body id
  tick,      \* Game.currentTick
  stack,     \* the call stack, innermost call last
  outcome,   \* how the last outermost call ended: "none", "running", "returned", "TypeError"
  lastCall,  \* the outermost call made last
  calls,     \* calls[id][attr]: how many times set_<attr> was invoked on body id (up to MaxCount)
  solved,    \* solved[id]: the locals E, F, i of body id's last eccAnom at the end of its loop
  budget     \* outermost calls the caller still makes (Unlimited: any number)

vars == <<bodies, tick, stack, outcome, lastCall, calls, solved, budget>>

MaxTick == 2
MaxCalls == 2
MaxCount == 2
Unlimited == 0 - 1

\* The names a body carries.
Fields == {"rvec", "vvec", "mass", "Mt", "n", "epoch"} \cup DerivedAttrs

Num(m, e) == [k |-> "num", m |-> m, e |-> e]

\* new Kepler(rvec, vvec, mass), and the orbit elements Mt, n, epoch the
\* simulation assigns to it (eccAnom reads them; nothing here writes them).
Kepler(rvec, vvec, mass, elements) ==
  [name \in Fields |->
     CASE name = "rvec" -> rvec
       [] name = "vvec" -> vvec
       [] name = "mass" -> mass
       [] name \in {"Mt", "n", "epoch"} -> elements[name]
       [] OTHER -> Undefined]

\* Position (7000, 0) km.
Rvec0 == Vec(Int2Num(7000), Zero)

\* Velocities: an ellipse (9 km/s across), two speeds just above escape
\* (specific orbital energy about 0.5 and about 1.0), a hyperbola (12 km/s).
Velocities ==
  {Vec(Zero, Int2Num(9)), Vec(Zero, Num(10719, -3)), Vec(Zero, Num(10765, -3)),
   Vec(Zero, Int2Num(12))}

\* The same two speeds above escape, straight away from the centre: h = 0.
RadialVelocities == {Vec(Num(10719, -3), Zero), Vec(Num(10765, -3), Zero)}

NoElements == [Mt |-> Undefined, n |-> Undefined, epoch |-> Undefined]
Elements == [Mt |-> Num(48400, -5), n |-> Num(25000, -5), epoch |-> Zero]

NoCall == [fn |-> "none", b |-> 0, name |-> ""]

Frame(fn, b, props, attr) ==
  [fn |-> fn, b |-> b, props |-> props, j |-> 1, attr |-> attr,
   E |-> Undefined, F |-> Undefined, i |-> 0]

NoSolve ==
  [E |-> Undefined, F |-> Undefined, i |-> 0, eps |-> Undefined, M |-> Undefined,
   tick |-> 0, done |-> FALSE]

InitWith(bs, n) ==
  /\ bodies = bs
  /\ tick = 0
  /\ stack = <<>>
  /\ outcome = "none"
  /\ lastCall = NoCall
  /\ calls = [b \in DOMAIN bs |-> [attr \in RuleAttrs |-> 0]]
  /\ solved = [b \in DOMAIN bs |-> NoSolve]
  /\ budget = n

Mass0 == Int2Num(1000)

\* One body with its orbit elements assigned; the caller makes MaxCalls calls.
Init ==
  \E vvec \in Velocities :
    InitWith(<<Kepler(Rvec0, vvec, Mass0, Elements)>>, MaxCalls)

\* One body as the constructor leaves it (the ellipse or the hyperbola); the
\* caller makes any number of calls.
InitResolver ==
  \E vvec \in {Vec(Zero, Int2Num(9)), Vec(Zero, Int2Num(12))} :
    InitWith(<<Kepler(Rvec0, vvec, Mass0, NoElements)>>, Unlimited)

\* One body, with or without orbit elements; any number of calls.
InitAnomaly ==
  \E vvec \in Velocities, el \in {NoElements, Elements} :
    InitWith(<<Kepler(Rvec0, vvec, Mass0, el)>>, Unlimited)

\* Two bodies that differ in their speed only, both moving straight away from
\* the centre (h = 0, so both have ecc = 1), with the same orbit elements.
InitPair ==
  \E v1 \in RadialVelocities, v2 \in RadialVelocities :
    /\ v1 # v2
    /\ InitWith(<<Kepler(Rvec0, v1, Mass0, Elements), Kepler(Rvec0, v2, Mass0, Elements)>>,
                Unlimited)

Idle == stack = <<>>
Top == stack[Len(stack)]
Pop == SubSeq(stack, 1, Len(stack) - 1)
Spend == IF budget = Unlimited THEN budget ELSE budget - 1

-----------------------------------------------------------------------------
(* require and the set_ functions *)

\* The caller calls body.require([name]).
CallRequire(b, name) ==
  /\ Idle
  /\ budget # 0
  /\ stack' = <<Frame("require", b, <<name>>, "")>>
  /\ outcome' = "running"
  /\ lastCall' = [fn |-> "require", b |-> b, name |-> name]
  /\ budget' = Spend
  /\ UNCHANGED <<bodies, tick, calls, solved>>

InRequire == ~Idle /\ Top.fn = "require" /\ Top.j <= Len(Top.props)

\* The loop of require meets a property that has a value: nothing to do.
RequireSkip ==
  /\ InRequire
  /\ Defined(bodies[Top.b][Top.props[Top.j]])
  /\ stack' = [stack EXCEPT ![Len(stack)].j = @ + 1]
  /\ UNCHANGED <<bodies, tick, outcome, lastCall, calls, solved, budget>>

\* The frames set_<attr> adds: its own, and that of its call of require.
Enter(b, attr) ==
  IF Prereqs(attr) = <<>>
  THEN <<Frame("set", b, <<>>, attr)>>
  ELSE <<Frame("set", b, <<>>, attr), Frame("require", b, Prereqs(attr), "")>>

\* One more invocation; the count stops at MaxCount.
Count(n) == IF n < MaxCount THEN n + 1 ELSE n

\* The loop meets an undefined property that has a set_ function: it calls
\* it, and set_<attr> calls require on its own list first.
RequireInvoke ==
  /\ InRequire
  /\ ~Defined(bodies[Top.b][Top.props[Top.j]])
  /\ Top.props[Top.j] \in RuleAttrs
  /\ stack' = stack \o Enter(Top.b, Top.props[Top.j])
  /\ calls' = [calls EXCEPT ![Top.b][Top.props[Top.j]] = Count(@)]
  /\ UNCHANGED <<bodies, tick, outcome, lastCall, solved, budget>>

\* RequireMissing, were the loop to pass over a property it cannot derive.
RequireMissingSkips ==
  /\ InRequire
  /\ ~Defined(bodies[Top.b][Top.props[Top.j]])
  /\ Top.props[Top.j] \notin RuleAttrs
  /\ stack' = [stack EXCEPT ![Len(stack)].j = @ + 1]
  /\ UNCHANGED <<bodies, tick, outcome, lastCall, calls, solved, budget>>

\* The loop meets an undefined property with no set_ function:
\* this['set_' + name] is undefined and calling it throws a TypeError,
\* which nothing catches.
RequireMissing ==
  /\ InRequire
  /\ ~Defined(bodies[Top.b][Top.props[Top.j]])
  /\ Top.props[Top.j] \notin RuleAttrs
  /\ stack' = <<>>
  /\ outcome' = "TypeError"
  /\ UNCHANGED <<bodies, tick, lastCall, calls, solved, budget>>

\* The loop of require is over: require returns.
RequireReturn ==
  /\ ~Idle
  /\ Top.fn = "require"
  /\ Top.j > Len(Top.props)
  /\ stack' = Pop
  /\ outcome' = IF Len(stack) = 1 THEN "returned" ELSE outcome
  /\ UNCHANGED <<bodies, tick, lastCall, calls, solved, budget>>

InSet == ~Idle /\ Top.fn = "set"

\* Whether the operands of set_eccvec's vector expression all have values.
OperandsDefined(attr, this) == \A u \in Uses(attr) : Defined(this[u])

\* set_<attr> evaluates its formula, assigns and returns to the loop of
\* require that called it, which moves on.
SetAssign ==
  /\ InSet
  /\ Top.attr = "eccvec" => OperandsDefined("eccvec", bodies[Top.b])
  /\ bodies' = [bodies EXCEPT ![Top.b][Top.attr] = Formula(Top.attr, bodies[Top.b])]
  /\ stack' = [Pop EXCEPT ![Len(stack) - 1].j = @ + 1]
  /\ UNCHANGED <<tick, outcome, lastCall, calls, solved, budget>>

\* set_eccvec with h, mu or r undefined, when the vector library computes on:
\* the result has no number in it.
SetEccvecNaN ==
  /\ InSet
  /\ Top.attr = "eccvec"
  /\ ~OperandsDefined("eccvec", bodies[Top.b])
  /\ bodies' = [bodies EXCEPT ![Top.b]["eccvec"] = Vec(NaN, NaN)]
  /\ stack' = [Pop EXCEPT ![Len(stack) - 1].j = @ + 1]
  /\ UNCHANGED <<tick, outcome, lastCall, calls, solved, budget>>

\* set_eccvec with h, mu or r undefined, when the vector library throws on an
\* undefined argument.
SetEccvecThrow ==
  /\ InSet
  /\ Top.attr = "eccvec"
  /\ ~OperandsDefined("eccvec", bodies[Top.b])
  /\ stack' = <<>>
  /\ outcome' = "TypeError"
  /\ UNCHANGED <<bodies, tick, lastCall, calls, solved, budget>>

-----------------------------------------------------------------------------
(* The anomaly pipeline *)

maxIter == 30
Tolerance == Num(10000, -7)
K == FDiv(Pi, Int2Num(180))

\* The mean anomaly eccAnom assigns to this.M.
MeanAnomaly(this, currentTick) ==
  LET M0 == FAdd(this["Mt"], FMul(this["n"], FSub(Int2Num(currentTick), this["epoch"])))
  IN FMul(FMul(Two, Pi), FSub(M0, FFloor(M0)))

\* The initial guess.
Guess(eps, M) == IF FLt(eps, Num(80000, -5)) THEN M ELSE Pi

\* F before the loop: the sine is taken of M.
FirstResidual(E, eps, M) == FSub(FSub(E, FMul(eps, FSin(M))), M)

\* F in the loop: E - eps * sin(E) - M.
Residual(E, eps, M) == FSub(FSub(E, FMul(eps, FSin(E))), M)

\* The Newton update of E.
NewtonUpdate(E, F, eps) == FSub(E, FDiv(F, FSub(One, FMul(eps, FCos(E)))))

\* LoopCond, were the count compared with <=.
LoopCondOffByOne(F, i) == FGt(FAbs(F), Tolerance) /\ i <= maxIter

\* The loop condition.
LoopCond(F, i) == FGt(FAbs(F), Tolerance) /\ i < maxIter

\* StoreE, were the result assigned to this.eps (the source's epsilon) for this.E.
StoreEInEps(this, E) == [this EXCEPT !["eps"] = FDiv(E, K)]

\* What eccAnom stores at its end.
StoreE(this, E) == [this EXCEPT !["E"] = FDiv(E, K)]

\* eccAnom up to its loop: M is assigned, E and F are set up.
CallEccAnom(b) ==
  /\ Idle
  /\ budget # 0
  /\ LET M == MeanAnomaly(bodies[b], tick)
         eps == bodies[b]["eps"]
         E == Guess(eps, M)
     IN /\ bodies' = [bodies EXCEPT ![b]["M"] = M]
        /\ stack' = <<[Frame("eccAnom", b, <<>>, "") EXCEPT
                         !.E = E, !.F = FirstResidual(E, eps, M)]>>
  /\ outcome' = "running"
  /\ lastCall' = [fn |-> "eccAnom", b |-> b, name |-> ""]
  /\ budget' = Spend
  /\ UNCHANGED <<tick, calls, solved>>

InEccAnom == ~Idle /\ Top.fn = "eccAnom"

\* One turn of the loop.
NewtonStep ==
  /\ InEccAnom
  /\ LoopCond(Top.F, Top.i)
  /\ LET this == bodies[Top.b]
         E == NewtonUpdate(Top.E, Top.F, this["eps"])
     IN stack' = [stack EXCEPT ![Len(stack)] =
                    [@ EXCEPT !.E = E, !.F = Residual(E, this["eps"], this["M"]),
                              !.i = @ + 1]]
  /\ UNCHANGED <<bodies, tick, outcome, lastCall, calls, solved, budget>>

\* The loop is over: this.E = E / K, and eccAnom returns.
EccAnomReturn ==
  /\ InEccAnom
  /\ ~LoopCond(Top.F, Top.i)
  /\ bodies' = [bodies EXCEPT ![Top.b] = StoreE(@, Top.E)]
  /\ solved' = [solved EXCEPT ![Top.b] =
                  [E |-> Top.E, F |-> Top.F, i |-> Top.i, eps |-> bodies[Top.b]["eps"],
                   M |-> bodies[Top.b]["M"], tick |-> tick, done |-> TRUE]]
  /\ stack' = <<>>
  /\ outcome' = "returned"
  /\ UNCHANGED <<tick, lastCall, calls, budget>>

\* The true anomaly TrueAnom computes from E and eps.
Phi(E, eps) ==
  LET S == FSin(E)
      C == FCos(E)
      fak == FSqrt(FSub(One, FMul(eps, eps)))
  IN FDiv(FAtan2(FMul(fak, S), FSub(C, eps)), Pi)

TrueAnom(b) ==
  /\ Idle
  /\ budget # 0
  /\ bodies' = [bodies EXCEPT ![b]["phi"] = Phi(bodies[b]["E"], bodies[b]["eps"])]
  /\ outcome' = "returned"
  /\ lastCall' = [fn |-> "TrueAnom", b |-> b, name |-> ""]
  /\ budget' = Spend
  /\ UNCHANGED <<tick, stack, calls, solved>>

\* The simulation advances Game.currentTick between calls.
Tick ==
  /\ Idle
  /\ tick < MaxTick
  /\ tick' = tick + 1
  /\ UNCHANGED <<bodies, stack, outcome, lastCall, calls, solved, budget>>

\* The names callers pass to require: every rule's, and those without a rule.
Requested == RuleAttrs \cup AnomalyAttrs

\* The steps of require and of the set_ functions that return.
ResolveRules ==
  \/ RequireSkip
  \/ RequireInvoke
  \/ RequireReturn
  \/ SetAssign

\* The steps that end in an error, and set_eccvec computing on undefined.
ResolveOdd ==
  \/ RequireMissing
  \/ SetEccvecNaN
  \/ SetEccvecThrow

Solve ==
  \/ NewtonStep
  \/ EccAnomReturn

Next ==
  \/ \E b \in DOMAIN bodies, name \in Requested : CallRequire(b, name)
  \/ \E b \in DOMAIN bodies : CallEccAnom(b)
  \/ \E b \in DOMAIN bodies : TrueAnom(b)
  \/ Tick
  \/ ResolveRules
  \/ ResolveOdd
  \/ Solve

Spec == Init /\ [][Next]_vars

\* require only, on a body as constructed.
NextResolver ==
  \/ \E b \in DOMAIN bodies, name \in Requested : CallRequire(b, name)
  \/ ResolveRules
  \/ ResolveOdd

ResolverSpec == InitResolver /\ [][NextResolver]_vars

\* The anomaly pipeline, with eps derived or not.
NextAnomaly ==
  \/ \E b \in DOMAIN bodies : CallRequire(b, "eps")
  \/ \E b \in DOMAIN bodies : CallEccAnom(b)
  \/ \E b \in DOMAIN bodies : TrueAnom(b)
  \/ Tick
  \/ ResolveRules
  \/ Solve

AnomalySpec == InitAnomaly /\ [][NextAnomaly]_vars

\* Two bodies with the same ecc: ecc derived, then eccAnom.
NextPair ==
  \/ \E b \in DOMAIN bodies : CallRequire(b, "ecc")
  \/ \E b \in DOMAIN bodies : CallEccAnom(b)
  \/ Tick
  \/ ResolveRules
  \/ Solve

PairSpec == InitPair /\ [][NextPair]_vars

-----------------------------------------------------------------------------
(* The claims *)

Ids == DOMAIN bodies
Range(seq) == {seq[n] : n \in DOMAIN seq}

\* C1 (as claimed): over any sequence of require calls on a body, starting
\* from a fresh one, every set_<attr> is invoked at most once.
C1_InvokedAtMostOnce ==
  \A b \in Ids, attr \in RuleAttrs : calls[b][attr] <= 1

\* C2 (as claimed): every derived attribute, M, E and phi included, once it
\* has a value keeps that value in every later state.
C2_AllDerivedKeepValue ==
  [][\A b \in Ids, attr \in DerivedAttrs :
       Defined(bodies[b][attr]) => bodies'[b][attr] = bodies[b][attr]]_vars

\* C2 (amended): every attribute that has a set_ function, once it has a
\* value, keeps that value whatever calls of require, eccAnom and TrueAnom
\* and whatever ticks follow.
C2_RuleAttrsKeepValue ==
  [][\A b \in Ids, attr \in RuleAttrs :
       Defined(bodies[b][attr]) => bodies'[b][attr] = bodies[b][attr]]_vars

\* C2's case: eps has its value and, a tick later, eccAnom has run to its end.
C2_Witness ==
  \E b \in Ids :
    /\ IsNum(bodies[b]["eps"])
    /\ solved[b].done
    /\ solved[b].tick > 0
    /\ Defined(bodies[b]["E"])

\* C3 (as claimed): when a set_<attr> comes to evaluate its formula, every
\* attribute it requires and every attribute the formula reads has a value.
C3_PrereqsPresent ==
  InSet => \A u \in Uses(Top.attr) \cup Range(Prereqs(Top.attr)) :
             Defined(bodies[Top.b][u])

\* C4: a finished call require([name]), for a name with no set_ function that
\* has no value, has ended in the TypeError: it has not returned normally.
C4_MissingRuleThrows ==
  (/\ Idle
   /\ lastCall.fn = "require"
   /\ lastCall.name \notin RuleAttrs
   /\ ~Defined(bodies[lastCall.b][lastCall.name]))
  => outcome = "TypeError"

\* C4's case: require(["M"]) on a body whose M was never computed threw.
C4_Witness ==
  /\ Idle
  /\ lastCall.fn = "require"
  /\ lastCall.name = "M"
  /\ ~Defined(bodies[lastCall.b]["M"])
  /\ outcome = "TypeError"

\* C5 (as claimed): when the loop of eccAnom has stopped (on numbers), the
\* residual E - eps*sin(E) - M of the E it ended with is at most 0.001 in
\* absolute value, or exactly 30 updates were made.
C5_ConvergedOrCapped ==
  \A b \in Ids :
    (solved[b].done /\ IsNum(solved[b].eps) /\ IsNum(solved[b].M))
    => \/ FLe(FAbs(Residual(solved[b].E, solved[b].eps, solved[b].M)), Tolerance)
       \/ solved[b].i = 30

\* The count of Newton updates of the eccAnom call in progress, if any.
Updates == IF InEccAnom THEN Top.i ELSE 0

\* C6: a call of eccAnom never makes more than 30 Newton updates of E, and
\* every step it takes either makes one more update, taken while |F| > 0.001
\* and fewer than 30 were made, or ends the call: it cannot run for ever.
C6_SolverTerminates ==
  /\ [](Updates <= 30 /\ \A b \in Ids : solved[b].i <= 30)
  /\ [][InEccAnom =>
          \/ /\ InEccAnom'
             /\ Updates' = Updates + 1
             /\ FGt(FAbs(Top.F), Tolerance)
             /\ Updates < 30
          \/ /\ Idle'
             /\ solved'[Top.b].done
             /\ solved'[Top.b].i = Updates]_vars

\* C6's case: a call of eccAnom has ended at the cap of 30 updates.
C6_Witness == \E b \in Ids : solved[b].done /\ solved[b].i = 30

\* C7 (as claimed): set_b takes the square root of a non-negative number in
\* either branch, and for ecc > 1 with a < 0 its b is a positive number.
C7_BranchesOfB ==
  \A id \in Ids :
    LET this == bodies[id]
        ecc2 == FSquare(this["ecc"])
    IN (IsNum(this["b"]) /\ IsNum(this["ecc"]) /\ IsNum(this["a"])) =>
         IF FGt(this["ecc"], One)
         THEN /\ FSub(ecc2, One).m >= 0
              /\ this["b"] = FMul(this["a"], FSqrt(FSub(ecc2, One)))
              /\ (this["a"].m < 0 => this["b"].m > 0)
         ELSE /\ FSub(One, ecc2).m >= 0
              /\ this["b"] = FMul(this["a"], FSqrt(FSub(One, ecc2)))

\* C8 (as claimed): after eccAnom and then TrueAnom, phi is the true anomaly
\* of the E (in radians) that the loop of eccAnom ended with.
C8_PhiOfRadianE ==
  \A b \in Ids :
    (Idle /\ lastCall = [fn |-> "TrueAnom", b |-> b, name |-> ""] /\ solved[b].done)
    => bodies[b]["phi"] = Phi(solved[b].E, bodies[b]["eps"])

\* C9 (as claimed): two bodies with the same ecc, Mt, n and epoch, whose
\* eccAnom ran at the same tick, have the same M and the same E.
C9_SameEccSameAnomaly ==
  \A b1 \in Ids, b2 \in Ids :
    (/\ Idle
     /\ solved[b1].done /\ solved[b2].done
     /\ solved[b1].tick = solved[b2].tick
     /\ IsNum(bodies[b1]["ecc"]) /\ bodies[b1]["ecc"] = bodies[b2]["ecc"]
     /\ \A name \in {"Mt", "n", "epoch"} : bodies[b1][name] = bodies[b2][name])
    => /\ bodies[b1]["M"] = bodies[b2]["M"]
       /\ bodies[b1]["E"] = bodies[b2]["E"]

\* The set_ calls in progress, outermost first.
InProgress == SelectSeq(stack, LAMBDA f : f.fn = "set")

\* The derivations not yet begun: the attributes with no value whose set_
\* function is not in progress.
Waiting ==
  Cardinality({p \in Ids \X RuleAttrs :
                 /\ ~Defined(bodies[p[1]][p[2]])
                 /\ \A n \in DOMAIN InProgress :
                      ~(InProgress[n].b = p[1] /\ InProgress[n].attr = p[2])})

\* What the frames of a stack have left to do: for each, the properties its
\* loop has not passed, and its return.
RECURSIVE Work(_)
Work(frames) ==
  IF frames = <<>> THEN 0
  ELSE (Len(Head(frames).props) - Head(frames).j + 2) + Work(Tail(frames))

\* More than any one call of a set_ function adds to the stack.
RankBase ==
  1 + (CHOOSE w \in {Work(Enter(1, attr)) : attr \in RuleAttrs} :
         \A attr \in RuleAttrs : Work(Enter(1, attr)) <= w)

\* A measure of what a call in progress has left to do.
Rank == Waiting * RankBase + Work(stack)

\* C10: no set_ function is entered while it is in progress, and every step
\* of a call of require that does not end it brings the call nearer its end
\* (the measure Rank, a natural number, decreases): require([attr]) ends, on
\* a fresh body and on any body a sequence of require calls leaves.
C10_RequireTerminates ==
  /\ [](\A m, n \in DOMAIN InProgress :
          m # n => ~(InProgress[m].b = InProgress[n].b /\ InProgress[m].attr = InProgress[n].attr))
  /\ [][(~Idle /\ ~Idle') => Rank' < Rank]_vars

\* C10's case: set_b is in progress and, below it, set_ecc, set_h, set_L and
\* set_I: the deepest chain of the derivations.
C10_Witness ==
  /\ Len(InProgress) = 5
  /\ InProgress[1].attr = "b"
  /\ InProgress[5].attr = "I"
====
